---- MODULE Spec2Model ----
(***************************************************************************)
(* SimpleServer (zooduck/simple-server), src/src/simpleServer.module.js.   *)
(*                                                                         *)
(* A string of the program is a sequence of one-character strings, so     *)
(* that node:path, the WHATWG URL parser and the regular expressions of   *)
(* the source are computed character by character as the runtime does.    *)
(* The host is POSIX: the path separator of node:path is "/", and a       *)
(* backslash is an ordinary character to it.                               *)
(***************************************************************************)
EXTENDS Integers, Sequences, FiniteSets, TLC

(***************************************************************************)
(* Strings                                                                 *)
(***************************************************************************)
Sep == "/"
Dot == "."
BackSlash == "\\"

RECURSIVE JoinWith(_, _)
\* Array.prototype.join: the strings of ss with sep between them.
JoinWith(ss, sep) ==
  IF ss = <<>> THEN <<>>
  ELSE IF Len(ss) = 1 THEN ss[1]
  ELSE ss[1] \o sep \o JoinWith(Tail(ss), sep)

RECURSIVE SplitOn(_, _)
\* String.prototype.split on a one-character separator: "a//b" gives
\* "a", "", "b"; the empty string gives one empty piece.
SplitOn(s, c) ==
  IF \A i \in 1..Len(s) : s[i] # c THEN <<s>>
  ELSE LET i == CHOOSE k \in 1..Len(s) : s[k] = c /\ \A j \in 1..(k - 1) : s[j] # c
       IN <<SubSeq(s, 1, i - 1)>> \o SplitOn(SubSeq(s, i + 1, Len(s)), c)

\* Sequences.SelectSeq with a fixed test: the non-empty strings of ss.
NonEmpty(ss) == LET keep(x) == x # <<>> IN SelectSeq(ss, keep)

\* String.prototype.endsWith for a one-character suffix.
EndsWith(s, c) == Len(s) > 0 /\ s[Len(s)] = c

\* String.prototype.indexOf, zero-based, -1 when sub does not occur.
IndexOf(s, sub) ==
  LET at(i) == i + Len(sub) <= Len(s) /\ SubSeq(s, i + 1, i + Len(sub)) = sub
      hits == {i \in 0..Len(s) : at(i)}
  IN IF hits = {} THEN -1 ELSE CHOOSE i \in hits : \A j \in hits : i <= j

\* String.prototype.slice(from) for from >= 0.
SliceFrom(s, from) == IF from >= Len(s) THEN <<>> ELSE SubSeq(s, from + 1, Len(s))

\* The ASCII letters.
UpperCase ==
  <<"A", "B", "C", "D", "E", "F", "G", "H", "I", "J", "K", "L", "M",
    "N", "O", "P", "Q", "R", "S", "T", "U", "V", "W", "X", "Y", "Z">>
LowerCase ==
  <<"a", "b", "c", "d", "e", "f", "g", "h", "i", "j", "k", "l", "m",
    "n", "o", "p", "q", "r", "s", "t", "u", "v", "w", "x", "y", "z">>
Letters == {UpperCase[k] : k \in DOMAIN UpperCase} \cup {LowerCase[k] : k \in DOMAIN LowerCase}

UpperToLower ==
  [c \in {UpperCase[k] : k \in DOMAIN UpperCase} |->
     LowerCase[CHOOSE k \in DOMAIN UpperCase : UpperCase[k] = c]]

\* String.prototype.toLowerCase, for strings of ASCII characters.
ToLowerCase(s) == [i \in 1..Len(s) |-> IF s[i] \in DOMAIN UpperToLower THEN UpperToLower[s[i]] ELSE s[i]]

(***************************************************************************)
(* node:path (posix)                                                       *)
(***************************************************************************)
RECURSIVE NormalizeSegments(_, _, _)
\* normalizeString of node:path: the segments of a path, left to right;
\* empty and "." segments are dropped, ".." removes the segment before it
\* unless there is none or it is ".." itself, and is then kept only when
\* the path is relative (allowAboveRoot).
NormalizeSegments(segs, res, allowAboveRoot) ==
  IF segs = <<>> THEN res
  ELSE LET s == Head(segs)
           rest == Tail(segs)
       IN IF s = <<>> \/ s = <<Dot>> THEN NormalizeSegments(rest, res, allowAboveRoot)
          ELSE IF s = <<Dot, Dot>>
            THEN IF res # <<>> /\ res[Len(res)] # <<Dot, Dot>>
                   THEN NormalizeSegments(rest, SubSeq(res, 1, Len(res) - 1), allowAboveRoot)
                 ELSE IF allowAboveRoot
                   THEN NormalizeSegments(rest, Append(res, s), allowAboveRoot)
                 ELSE NormalizeSegments(rest, res, allowAboveRoot)
          ELSE NormalizeSegments(rest, Append(res, s), allowAboveRoot)

\* path.normalize.
PathNormalize(p) ==
  IF Len(p) = 0 THEN <<Dot>>
  ELSE LET isAbsolute == p[1] = Sep
           trailingSeparator == p[Len(p)] = Sep
           body == JoinWith(NormalizeSegments(SplitOn(p, Sep), <<>>, ~isAbsolute), <<Sep>>)
       IN IF Len(body) = 0
            THEN IF isAbsolute THEN <<Sep>>
                 ELSE IF trailingSeparator THEN <<Dot, Sep>> ELSE <<Dot>>
          ELSE (IF isAbsolute THEN <<Sep>> ELSE <<>>) \o body
               \o (IF trailingSeparator THEN <<Sep>> ELSE <<>>)

\* path.join: the non-empty arguments joined by "/" and normalized; "."
\* when every argument is empty.
PathJoin(parts) ==
  LET joined == JoinWith(NonEmpty(parts), <<Sep>>)
  IN IF Len(joined) = 0 THEN <<Dot>> ELSE PathNormalize(joined)

\* path.extname of a path without a trailing separator: from the last "."
\* of the last segment, "" when there is none, when it starts the segment,
\* or when the segment is "..".
PathExtname(p) ==
  LET segs == SplitOn(p, Sep)
      base == segs[Len(segs)]
      dots == {i \in 1..Len(base) : base[i] = Dot}
      startDot == CHOOSE i \in dots : \A j \in dots : j <= i
  IN IF dots = {} THEN <<>>
     ELSE IF startDot = 1 \/ base = <<Dot, Dot>> THEN <<>>
     ELSE SubSeq(base, startDot, Len(base))

(***************************************************************************)
(* Path normalizer and URL pathname                                        *)
(***************************************************************************)
IsSepChar(c) == c = Sep \/ c = BackSlash

\* String.prototype.replace(/^[/\\]|[/\\]$/g, ''): one separator is removed
\* at the start and one at the end; a one-character string has only the
\* first.
StripSeparators(s) ==
  LET lead == Len(s) > 0 /\ IsSepChar(s[1])
      afterLead == IF lead THEN Tail(s) ELSE s
      trail == Len(afterLead) > 0 /\ IsSepChar(afterLead[Len(afterLead)])
  IN IF trail THEN SubSeq(afterLead, 1, Len(afterLead) - 1) ELSE afterLead

\* #normalizePath.
normalizePath(pathToNormalize) == StripSeparators(PathNormalize(pathToNormalize))

\* A segment the URL parser takes for "." or for "..": the dot may be
\* written %2e, in either case.
IsSingleDotSegment(s) == ToLowerCase(s) \in {<<Dot>>, <<"%", "2", "e">>}
IsDoubleDotSegment(s) ==
  ToLowerCase(s) \in {<<Dot, Dot>>, <<Dot, "%", "2", "e">>, <<"%", "2", "e", Dot>>,
                      <<"%", "2", "e", "%", "2", "e">>}

RECURSIVE UrlPathSegments(_, _)
\* The path state of the WHATWG URL parser for an http URL: a ".." segment
\* removes the last segment of the path, a "." segment is dropped, and
\* either of them as the last segment of the input leaves an empty segment.
UrlPathSegments(segs, path) ==
  IF segs = <<>> THEN path
  ELSE LET s == Head(segs)
           last == Len(segs) = 1
       IN IF IsDoubleDotSegment(s)
            THEN LET popped == IF path = <<>> THEN path ELSE SubSeq(path, 1, Len(path) - 1)
                 IN UrlPathSegments(Tail(segs), IF last THEN Append(popped, <<>>) ELSE popped)
          ELSE IF IsSingleDotSegment(s)
            THEN UrlPathSegments(Tail(segs), IF last THEN Append(path, <<>>) ELSE path)
          ELSE UrlPathSegments(Tail(segs), Append(path, s))

\* The path percent-encode set of the URL parser, among printable ASCII
\* (query and fragment are cut off before; the grave accent, which the
\* parser encodes as %60, is left out): the characters the parser writes
\* into the pathname as %XX.
PathPercentEncoded ==
  [c \in {" ", "\"", "<", ">", "{", "}"} |->
     CASE c = " " -> <<"%", "2", "0">>
       [] c = "\"" -> <<"%", "2", "2">>
       [] c = "<" -> <<"%", "3", "C">>
       [] c = ">" -> <<"%", "3", "E">>
       [] c = "{" -> <<"%", "7", "B">>
       [] c = "}" -> <<"%", "7", "D">>]

RECURSIVE UrlEncodePath(_)
\* A path segment as the parser appends it to the pathname.
UrlEncodePath(s) ==
  IF s = <<>> THEN <<>>
  ELSE (IF Head(s) \in DOMAIN PathPercentEncoded THEN PathPercentEncoded[Head(s)] ELSE <<Head(s)>>)
       \o UrlEncodePath(Tail(s))

\* The characters of request.url: those the URL parser copies into the
\* pathname as they are, those it percent-encodes, the separators and the
\* marks of query and fragment. A space is none of them: node's HTTP
\* parser ends the target at a space, and answers a request line with a
\* space inside its target with 400 without calling the listener. (The
\* characters outside printable ASCII are left out.)
UrlChars ==
  Letters \cup {"0", "1", "2", "3", "4", "5", "6", "7", "8", "9"}
          \cup {Sep, BackSlash, Dot, "?", "#", "%", "-", "_", "~", "=", "&", "+"}
          \cup (DOMAIN PathPercentEncoded \ {" "})

\* The input of the URL parser: leading and trailing spaces are removed.
UrlTrimmed(input) ==
  LET others == {i \in 1..Len(input) : input[i] # " "}
      first == CHOOSE i \in others : \A j \in others : i <= j
      last == CHOOSE i \in others : \A j \in others : j <= i
  IN IF others = {} THEN <<>> ELSE SubSeq(input, first, last)

\* The target without its query and fragment, "\" read as "/" (as the
\* parser does for http).
UrlBeforeQuery(url) ==
  LET input == UrlTrimmed(url)
      marks == {i \in 1..Len(input) : input[i] \in {"?", "#"}}
      end == IF marks = {} THEN Len(input) ELSE (CHOOSE i \in marks : \A j \in marks : i <= j) - 1
  IN [i \in 1..end |-> IF input[i] = BackSlash THEN Sep ELSE input[i]]

\* The number of separators a string starts with.
LeadingSeparators(s) ==
  LET others == {i \in 1..Len(s) : s[i] # Sep}
  IN IF others = {} THEN Len(s) ELSE (CHOOSE i \in others : \A j \in others : i <= j) - 1

\* A target that starts with two or more separators names a host: the
\* host, and the path after it.
UrlAfterSlashes(url) ==
  LET t == UrlBeforeQuery(url)
  IN SubSeq(t, LeadingSeparators(t) + 1, Len(t))
UrlHost(url) ==
  LET rest == UrlAfterSlashes(url)
      at == IndexOf(rest, <<Sep>>)
  IN IF at = -1 THEN rest ELSE SubSeq(rest, 1, at)
UrlPathAfterHost(url) ==
  LET rest == UrlAfterSlashes(url)
  IN SubSeq(rest, Len(UrlHost(url)) + 1, Len(rest))

\* A request target in origin form, over UrlChars; a host it names is
\* empty or made of letters.
IsRequestTarget(url) ==
  /\ Len(url) >= 1
  /\ url[1] = Sep
  /\ \A i \in 1..Len(url) : url[i] \in UrlChars
  /\ LeadingSeparators(UrlBeforeQuery(url)) >= 2 =>
       \A i \in 1..Len(UrlHost(url)) : UrlHost(url)[i] \in Letters

\* new URL(...) throws TypeError: Invalid URL.
InvalidUrl == <<"TypeError: Invalid URL">>

\* A Host header as the requests of this model carry it: a name of
\* letters (a space in it stands for any character no host may hold),
\* or nothing, and after a colon whatever is given as the port. The HTTP
\* parser has removed the spaces around the value.
HostChars == Letters \cup {"0", "1", "2", "3", "4", "5", "6", "7", "8", "9"} \cup {":", " "}
\* Where the first colon of the header is (past its end when it has none):
\* the name is before it, the port after it.
HostColon(host) ==
  LET colons == {i \in 1..Len(host) : host[i] = ":"}
  IN IF colons = {} THEN Len(host) + 1 ELSE CHOOSE i \in colons : \A j \in colons : i <= j
HostPort(host) == SubSeq(host, HostColon(host) + 1, Len(host))
IsHostHeader(host) ==
  /\ \A i \in 1..Len(host) : host[i] \in HostChars
  /\ \A i \in 1..(HostColon(host) - 1) : host[i] \in Letters \cup {" "}
  /\ host # <<>> => host[1] # " " /\ host[Len(host)] # " "

PortDigit ==
  [c \in {"0", "1", "2", "3", "4", "5", "6", "7", "8", "9"} |->
     CASE c = "0" -> 0 [] c = "1" -> 1 [] c = "2" -> 2 [] c = "3" -> 3 [] c = "4" -> 4
       [] c = "5" -> 5 [] c = "6" -> 6 [] c = "7" -> 7 [] c = "8" -> 8 [] c = "9" -> 9]

RECURSIVE PortValue(_, _)
\* The port as the parser accumulates it, digit by digit: 65536 once it
\* has passed 65535.
PortValue(digits, acc) ==
  IF digits = <<>> THEN acc
  ELSE LET next == acc * 10 + PortDigit[Head(digits)]
       IN PortValue(Tail(digits), IF next > 65535 THEN 65536 ELSE next)

\* `http://${request.headers.host}` is a URL: the host is not empty and
\* holds no forbidden character, the port is made of digits and is at
\* most 65535.
BaseIsUrl(host) ==
  LET colon == HostColon(host)
  IN /\ colon > 1
     /\ \A i \in 1..(colon - 1) : host[i] # " "
     /\ \A i \in (colon + 1)..Len(host) : host[i] \in DOMAIN PortDigit
     /\ PortValue(HostPort(host), 0) <= 65535

\* The pathname of a path that is empty or starts with a separator.
PathnameOf(path) ==
  IF path = <<>> THEN <<Sep>>
  ELSE <<Sep>> \o UrlEncodePath(JoinWith(UrlPathSegments(SplitOn(Tail(path), Sep), <<>>), <<Sep>>))

\* #getPathnameFromRequest for request.url and request.headers.host:
\* new URL(url, `http://${host}`).pathname. new URL throws when the base
\* is no URL, whatever the target. The query and the fragment are not
\* part of the pathname; a target that starts with two separators or more
\* is read as //host/path, and is no URL when that host is empty.
getPathnameFromRequest(url, host) ==
  LET t == UrlBeforeQuery(url)
  IN IF ~BaseIsUrl(host) THEN InvalidUrl
     ELSE IF LeadingSeparators(t) >= 2
       THEN IF UrlHost(url) = <<>> THEN InvalidUrl ELSE PathnameOf(UrlPathAfterHost(url))
     ELSE PathnameOf(t)

(***************************************************************************)
(* MIME table                                                              *)
(***************************************************************************)
html == <<"h", "t", "m", "l">>
css == <<"c", "s", "s">>
js == <<"j", "s">>
mjs == <<"m", "j", "s">>
json == <<"j", "s", "o", "n">>
png == <<"p", "n", "g">>
jpg == <<"j", "p", "g">>
gif == <<"g", "i", "f">>
svg == <<"s", "v", "g">>
ico == <<"i", "c", "o">>
pdf == <<"p", "d", "f">>
default == <<"d", "e", "f", "a", "u", "l", "t">>
constructor == <<"c", "o", "n", "s", "t", "r", "u", "c", "t", "o", "r">>
proto == <<"_", "_", "p", "r", "o", "t", "o", "_", "_">>

\* static #MIME_TYPES: the own properties of the object literal.
MIME_TYPES ==
  [e \in {default, html, css, js, mjs, json, png, jpg, gif, svg, ico} |->
     CASE e = default -> "application/octet-stream"
       [] e = html -> "text/html"
       [] e = css -> "text/css"
       [] e = js -> "text/javascript"
       [] e = mjs -> "text/javascript"
       [] e = json -> "application/json"
       [] e = png -> "image/png"
       [] e = jpg -> "image/jpg"
       [] e = gif -> "image/gif"
       [] e = svg -> "image/svg+xml"
       [] e = ico -> "image/x-icon"]

\* The all-lower-case property names an object literal inherits from
\* Object.prototype, with the header text of their (truthy) values.
InheritedProperties ==
  [e \in {constructor, proto} |->
     IF e = constructor THEN "function Object() { [native code] }" ELSE "[object Object]"]

\* MIME_TYPES[fileExtension] || MIME_TYPES.default: a property read goes
\* through the prototype chain, and any truthy value is taken.
MimeType(fileExtension) ==
  IF fileExtension \in DOMAIN MIME_TYPES THEN MIME_TYPES[fileExtension]
  ELSE IF fileExtension \in DOMAIN InheritedProperties THEN InheritedProperties[fileExtension]
  ELSE MIME_TYPES[default]

\* path.extname(streamPath).substring(1).toLowerCase()
FileExtension(streamPath) == ToLowerCase(SliceFrom(PathExtname(streamPath), 1))

(***************************************************************************)
(* Inputs: names, files, handlers                                          *)
(***************************************************************************)
api == <<"a", "p", "i">>
book == <<"b", "o", "o", "k">>
items == <<"i", "t", "e", "m", "s">>
pub == <<"p", "u", "b">>
indexHtml == <<"i", "n", "d", "e", "x", ".", "h", "t", "m", "l">>
notFoundHtml == <<"4", "0", "4", ".", "h", "t", "m", "l">>

\* The page start() writes, after String.prototype.trim.
Default404Page ==
  "<!DOCTYPE html>\n<html lang=\"en\">\n  <head>\n    <title>404 Not Found</title>\n  </head>\n  <body>404 Not Found</body>\n</html>"

\* JSON.stringify({ error: '400 Bad Request' })
BadRequestBody == "{\"error\":\"400 Bad Request\"}"

Methods == {"GET", "POST"}

\* What a handler returns (or resolves to).
Null == [kind |-> "null"]
Undefined == [kind |-> "undefined"]
Str(text) == [kind |-> "string", text |-> text]
\* The callback threw, or the promise it returned rejected.
Thrown == [kind |-> "thrown"]

\* !result of the source, for the values a handler returns here.
Falsy(result) == result.kind \in {"null", "undefined"} \/ result = Str("")

\* The handlers registered in this model. getBook is the README's: JSON for
\* a GET, null for any other method. listItems is asynchronous and answers
\* every method. noReturn returns nothing, emptyText the empty string.
\* failing throws (or returns a promise that rejects).
HandlerResult(callback, method) ==
  CASE callback = "getBook" -> IF method = "GET" THEN Str("{\"title\":\"Dune\"}") ELSE Null
    [] callback = "listItems" -> Str("[1,2]")
    [] callback = "noReturn" -> Undefined
    [] callback = "emptyText" -> Str("")
    [] callback = "failing" -> Thrown

\* A status code as the program holds it: a number, or a string of digits.
Num(n) == [num |-> n]
Digits(s) == [digits |-> s]

DigitValue ==
  [c \in {"0", "1", "2", "3", "4", "5", "6", "7", "8", "9"} |->
     CASE c = "0" -> 0 [] c = "1" -> 1 [] c = "2" -> 2 [] c = "3" -> 3 [] c = "4" -> 4
       [] c = "5" -> 5 [] c = "6" -> 6 [] c = "7" -> 7 [] c = "8" -> 8 [] c = "9" -> 9]

RECURSIVE ParseDigits(_, _)
ParseDigits(s, acc) ==
  IF s = <<>> THEN acc ELSE ParseDigits(Tail(s), acc * 10 + DigitValue[Head(s)])

\* The status line node:http writes: statusCode |= 0 turns a string of
\* digits into its number.
StatusOnWire(statusCode) ==
  IF "digits" \in DOMAIN statusCode THEN ParseDigits(statusCode.digits, 0) ELSE statusCode.num

(***************************************************************************)
(* File system                                                             *)
(***************************************************************************)
\* The bytes of a text as a read stream reads them: in chunks of
\* highWaterMark (64 KiB), so a short text is one chunk, and the empty text
\* none.
Chunks(text) == IF text = "" THEN <<>> ELSE <<text>>

\* An entry of the file system: a regular file with its bytes (by chunks)
\* and the access the server's user has to it, or a directory. exports is
\* what import() of the entry gives as `default`: the name of a callback,
\* "none" (a module without default export: undefined), or "throws" when
\* the import rejects (the entry is no module, or evaluating it throws).
File(data, access) == [kind |-> "file", access |-> access, data |-> data, exports |-> "throws"]
Directory == [kind |-> "dir", access |-> "rw", data |-> <<>>, exports |-> "throws"]
Module(source, exports) == [File(Chunks(source), "rw") EXCEPT !.exports = exports]

\* fs.open(path, 'r') resolves: the path exists and may be read. On POSIX a
\* directory opens for reading too.
CanOpen(files, path) ==
  /\ path \in DOMAIN files
  /\ files[path].kind = "dir" \/ files[path].access \in {"rw", "r"}

\* fs.writeFile(path, data) resolves: an existing file must be writable, a
\* new one needs a writable directory.
CanWrite(files, path, dirWritable) ==
  IF path \in DOMAIN files
    THEN files[path].kind = "file" /\ files[path].access \in {"rw", "w"}
  ELSE dirWritable

\* The file system after fs.writeFile(path, data) resolved.
WriteFile(files, path, data) ==
  IF path \in DOMAIN files
    THEN [files EXCEPT ![path].data = Chunks(data)]
  ELSE [q \in DOMAIN files \cup {path} |->
          IF q = path THEN File(Chunks(data), "rw") ELSE files[q]]

\* The index of the last separator of a path, 0 when it has none.
LastSeparator(p) ==
  LET seps == {i \in 1..Len(p) : p[i] = Sep}
  IN IF seps = {} THEN 0 ELSE CHOOSE i \in seps : \A j \in seps : j <= i

\* fs.readdir(dir): the names of the entries of the directory.
ReadDir(files, dir) ==
  {SubSeq(p, LastSeparator(p) + 1, Len(p)) :
     p \in {q \in DOMAIN files : LastSeparator(q) > 0 /\ SubSeq(q, 1, LastSeparator(q) - 1) = dir}}

\* The orders in which readdir may list the names.
Orders(names) ==
  {order \in [1..Cardinality(names) -> names] :
     \A i, j \in 1..Cardinality(names) : i # j => order[i] # order[j]}

(***************************************************************************)
(* Bounds                                                                  *)
(***************************************************************************)
\* Requests in flight at once.
MaxRequests == 2
\* Calls of addRoute by the program (routes from files come on top).
MaxRegistrations == 2
\* Length of a route string drawn from every string over RouteAlphabet.
MaxRouteLen == 3
\* Calls of addRoute when the routes are drawn from every such string.
MaxRouteRegistrations == 1
\* Length of a path string given to the path normalizer.
MaxPathLen == 4

(***************************************************************************)
(* State                                                                   *)
(***************************************************************************)
VARIABLES
  options,    \* the object given to the constructor
  env,        \* what the host allows: removing and creating the staging directory, writing in it and in the static root, binding the port
  fs,         \* the files under the working directory, by path
  apiFiles,   \* the files #getRoutesFromAPIFolder has listed, by path: "found", then as mkdir and cp settle "dirMade", "dirFailed", "copiedBeforeDir", "failedBeforeDir", "copied", and "registered" or "failed"
  walk,       \* the calls of #getRoutesFromAPIFolder in progress, innermost last
  stagingDir, \* the handler-staging directory tmp/api: "stale" (whatever an earlier run left), "absent" or "created"
  phase,      \* where start() is
  startError, \* why start() rejected
  ownPage,    \* history: the program wrote a 404.html of its own while start() ran
  routes,     \* #routes
  latest,     \* history: per key of #routes, the route and callback of the last addRoute, and the callback it replaced
  nRegs,      \* history: calls of addRoute by the program
  reqs,       \* per connection, the request being served and its response
  alive,      \* the node process runs
  norm        \* a path string under #normalizePath, applied to it once and again

vars == <<options, env, fs, apiFiles, walk, stagingDir, phase, startError, ownPage, routes, latest, nRegs, reqs, alive, norm>>

EmptyMap == [k \in {} |-> "none"]

\* A response as http.ServerResponse starts: statusCode 200, no header,
\* nothing sent (status is the code of the status line once the head has
\* gone out, body the chunks written after it).
NewResponse ==
  [statusCode |-> Num(200), contentType |-> "", status |-> 0, type |-> "",
   body |-> <<>>, ended |-> FALSE]

\* during is history: the connections that awaited a route's callback
\* when the request arrived. handles are the file handles the listener
\* opened for the request and that are not closed: "probe" (filehandle),
\* "stream" (fileHandle).
IdleRequest ==
  [pc |-> "idle", url |-> <<>>, method |-> "GET", host |-> <<>>, during |-> {}, handles |-> {},
   route |-> "none", result |-> Undefined,
   filePath |-> <<>>, fileExists |-> FALSE, statusCode |-> 0, streamPath |-> <<>>,
   mimeType |-> "", response |-> NewResponse]

\* The static root with the given entries (paths relative to it).
FilesUnder(staticPath, entries) ==
  LET paths == {PathJoin(<<staticPath, rel>>) : rel \in DOMAIN entries}
  IN [q \in paths |-> entries[CHOOSE rel \in DOMAIN entries : PathJoin(<<staticPath, rel>>) = q]]

\* The entries of a static root together with those of its api folder.
WithApi(entries, tree) ==
  [rel \in DOMAIN entries \cup DOMAIN tree |-> IF rel \in DOMAIN tree THEN tree[rel] ELSE entries[rel]]

\* No path is being normalized.
NoPath == [pc |-> "none", p |-> <<>>, once |-> <<>>, twice |-> <<>>]

\* The state after new SimpleServer(options): no route, nothing started.
\* The static root holds the site's files and the api folder.
Constructed(optionSet, envSet, fileSets, apiTrees) ==
  /\ options \in optionSet
  /\ env \in envSet
  /\ \E entries \in fileSets, tree \in apiTrees :
       fs = FilesUnder(options.staticPath, WithApi(entries, tree))
  /\ apiFiles = EmptyMap
  /\ walk = <<>>
  /\ stagingDir = "stale"
  /\ phase = "constructed"
  /\ startError = "none"
  /\ ownPage = FALSE
  /\ routes = EmptyMap
  /\ latest = EmptyMap
  /\ nRegs = 0
  /\ reqs = [i \in 1..MaxRequests |-> IdleRequest]
  /\ alive = TRUE

InitOf(optionSet, envSet, fileSets, apiTrees) ==
  /\ Constructed(optionSet, envSet, fileSets, apiTrees)
  /\ norm = NoPath

(***************************************************************************)
(* Routes                                                                  *)
(***************************************************************************)
\* Map.prototype.set.
MapSet(map, key, value) ==
  [k \in DOMAIN map \cup {key} |-> IF k = key THEN value ELSE map[k]]

\* A key that is joined but not normalized: separators are kept.
RouteKeyJoinedOnly(route) == PathJoin(<<api, route>>)

\* The key addRoute stores a route under.
RouteKey(route) == normalizePath(PathJoin(<<api, route>>))

\* A table in which the first registration of a key stays.
RoutesKeepFirst(map, route, callback) ==
  LET key == normalizePath(PathJoin(<<api, route>>))
  IN IF key \in DOMAIN map THEN map ELSE MapSet(map, key, callback)

\* #routes after addRoute(route, callback).
RoutesAfterAdd(map, route, callback) == MapSet(map, RouteKey(route), callback)

\* addRoute(route, callback), whoever calls it.
Register(route, callback) ==
  /\ routes' = RoutesAfterAdd(routes, route, callback)
  /\ latest' = MapSet(latest, RouteKey(route),
                       [route |-> route, callback |-> callback,
                        replaced |-> IF RouteKey(route) \in DOMAIN latest
                                       THEN latest[RouteKey(route)].callback ELSE "none"])

\* The program calls addRoute(route, callback): before start(), while
\* start() awaits, or while the server listens.
AddRoute(route, callback) ==
  /\ alive
  /\ nRegs' = nRegs + 1
  /\ Register(route, callback)
  /\ UNCHANGED <<alive, norm, options, env, fs, apiFiles, walk, stagingDir, phase, startError, ownPage, reqs>>

(***************************************************************************)
(* start()                                                                 *)
(***************************************************************************)
\* Nobody holds the promise the listener returns, nor the promise of the
\* fs.mkdir that #getRoutesFromAPIFolder does not await, and the stream
\* piped into the response has no 'error' listener: a rejection of the one
\* or an error of the other is unhandled. Node ends the process on it,
\* unless the program that embeds the server handles 'unhandledRejection'
\* and 'uncaughtException' (or runs node with --unhandled-rejections=warn).
Unhandled == alive' \in BOOLEAN

\* A call of #getRoutesFromAPIFolder(dir): read tells whether its readdir
\* has settled, todo holds the names its loop has still to go through
\* (the one at the head is the one it is at).
Frame(dir) == [dir |-> dir, read |-> FALSE, todo |-> <<>>]

\* The turn of the loop for the name at the head is over.
DropHead(stack) == [stack EXCEPT ![Len(stack)].todo = Tail(@)]

RECURSIVE Continue(_, _)
\* The loop of the innermost call goes on to its next await: a directory
\* at the head is entered (a call that awaits its readdir), a file at the
\* head is being copied, and when no name is left the call returns to the
\* loop of its caller, whose turn for the directory is over.
Continue(stack, files) ==
  IF stack = <<>> THEN stack
  ELSE LET top == stack[Len(stack)]
           callers == SubSeq(stack, 1, Len(stack) - 1)
       IN IF top.todo = <<>>
            THEN IF callers = <<>> THEN callers ELSE Continue(DropHead(callers), files)
          ELSE IF files[PathJoin(<<top.dir, Head(top.todo)>>)].kind = "dir"
            THEN Append(stack, Frame(PathJoin(<<top.dir, Head(top.todo)>>)))
          ELSE stack

\* `await fs.rm(tmp/api, { recursive: true, force: true })` of
\* #createTempRouteFilesDirectory has settled; a failure rejects start().
StartRemoveTemp ==
  /\ alive
  /\ phase = "constructed"
  /\ IF env.rmOk
       THEN phase' = "cleared" /\ stagingDir' = "absent" /\ UNCHANGED startError
       ELSE phase' = "rejected" /\ startError' = "rm" /\ UNCHANGED stagingDir
  /\ UNCHANGED <<alive, norm, options, env, fs, apiFiles, walk, ownPage, routes, latest, nRegs, reqs>>

\* `await fs.mkdir(tmp/api, { recursive: true })` has settled; a failure
\* rejects start(). After it #getRoutesFromAPIFolder() is called for
\* <staticPath>/api and awaits its readdir.
StartMakeTemp ==
  /\ alive
  /\ phase = "cleared"
  /\ IF env.mkdirOk
       THEN /\ phase' = "staged"
            /\ stagingDir' = "created"
            /\ walk' = <<Frame(PathJoin(<<options.staticPath, api>>))>>
            /\ UNCHANGED startError
       ELSE phase' = "rejected" /\ startError' = "mkdir" /\ UNCHANGED <<stagingDir, walk>>
  /\ UNCHANGED <<alive, norm, options, env, fs, apiFiles, ownPage, routes, latest, nRegs, reqs>>

\* `await fs.readdir(routeFilesPath, { withFileTypes: true })` of the
\* innermost call has settled: the names are listed in some order; when
\* it rejects (no such directory) the call returns. When the outermost
\* call returns, fs.open of 404.html is next.
StartReadDir ==
  /\ alive
  /\ phase = "staged"
  /\ walk # <<>>
  /\ ~walk[Len(walk)].read
  /\ LET dir == walk[Len(walk)].dir
         names == IF dir \in DOMAIN fs /\ fs[dir].kind = "dir" THEN ReadDir(fs, dir) ELSE {}
         files == {PathJoin(<<dir, name>>) : name \in {n \in names : fs[PathJoin(<<dir, n>>)].kind = "file"}}
     IN /\ \E order \in Orders(names) :
             walk' = Continue([walk EXCEPT ![Len(walk)] = [@ EXCEPT !.read = TRUE, !.todo = order]], fs)
        /\ apiFiles' = [p \in DOMAIN apiFiles \cup files |-> IF p \in files THEN "found" ELSE apiFiles[p]]
  /\ phase' = IF walk' = <<>> THEN "routed" ELSE "staged"
  /\ UNCHANGED <<alive, norm, options, env, fs, stagingDir, startError, ownPage, routes, latest, nRegs, reqs>>

\* routeFile.replace(/\.m?js$/, '')
StripJsExtension(name) ==
  LET n == Len(name)
  IN IF n >= 4 /\ SubSeq(name, n - 3, n) = <<Dot>> \o mjs THEN SubSeq(name, 1, n - 4)
     ELSE IF n >= 3 /\ SubSeq(name, n - 2, n) = <<Dot>> \o js THEN SubSeq(name, 1, n - 3)
     ELSE name

\* routeDirectoryPath of #getRoutesFromAPIFolder.
RouteDirectoryPath(routeFilesPath) == SliceFrom(routeFilesPath, IndexOf(routeFilesPath, api) + 4)

\* The route #getRoutesFromAPIFolder registers for the file `name` found
\* in the directory routeFilesPath.
RoutePathOfFile(routeFilesPath, name) ==
  PathJoin(<<RouteDirectoryPath(routeFilesPath), StripJsExtension(name)>>)

\* The file the loop of the innermost call is at.
RouteFilePath(stack) ==
  PathJoin(<<stack[Len(stack)].dir, Head(stack[Len(stack)].todo)>>)

\* The loop of the innermost call is at a file.
AtRouteFile(stack) ==
  /\ stack # <<>>
  /\ stack[Len(stack)].read
  /\ stack[Len(stack)].todo # <<>>

\* The status of a route file once one more of its two pending operations
\* has settled: the fs.mkdir of its staging directory (231), which is not
\* awaited, and the fs.cp (233) start() awaits. They run side by side and
\* settle in either order.
AfterMakeRouteDir(status, made) ==
  CASE status = "found" -> IF made THEN "dirMade" ELSE "dirFailed"
    [] status = "copiedBeforeDir" -> "copied"
    [] status = "failedBeforeDir" -> "failed"

AfterCopyRoute(status, copied) ==
  CASE status = "found" -> IF copied THEN "copiedBeforeDir" ELSE "failedBeforeDir"
    [] status \in {"dirMade", "dirFailed"} -> IF copied THEN "copied" ELSE "failed"

\* The fs.mkdir(tempRouteDirectoryAbsolutePath, { recursive: true }) of the
\* file's staging directory, which is not awaited, has settled, before the
\* fs.cp of the file or after it (and then start() may have rejected): for
\* a file of the api folder itself the directory is there; a new
\* sub-directory in a staging directory that cannot be written fails, and
\* that is a rejection nobody handles. (The mkdir is taken to settle
\* before the import of the copy does.)
StartMakeRouteDir ==
  /\ alive
  /\ phase \in {"staged", "rejected"}
  /\ AtRouteFile(walk)
  /\ apiFiles[RouteFilePath(walk)] \in {"found", "copiedBeforeDir", "failedBeforeDir"}
  /\ IF env.stagingWritable \/ RouteDirectoryPath(walk[Len(walk)].dir) = <<>>
       THEN /\ apiFiles' = [apiFiles EXCEPT ![RouteFilePath(walk)] = AfterMakeRouteDir(@, TRUE)]
            /\ UNCHANGED alive
       ELSE /\ apiFiles' = [apiFiles EXCEPT ![RouteFilePath(walk)] = AfterMakeRouteDir(@, FALSE)]
            /\ Unhandled
  /\ UNCHANGED <<norm, options, env, fs, walk, stagingDir, phase, startError, ownPage, routes,
                 latest, nRegs, reqs>>

\* `await fs.cp(routeFilePath, tempRouteFilePath)` has settled, before the
\* fs.mkdir or after it: a failing copy rejects start().
StartCopyRoute ==
  /\ alive
  /\ phase = "staged"
  /\ AtRouteFile(walk)
  /\ apiFiles[RouteFilePath(walk)] \in {"found", "dirMade", "dirFailed"}
  /\ IF env.stagingWritable /\ CanOpen(fs, RouteFilePath(walk))
       THEN /\ apiFiles' = [apiFiles EXCEPT ![RouteFilePath(walk)] = AfterCopyRoute(@, TRUE)]
            /\ UNCHANGED <<phase, startError>>
       ELSE /\ apiFiles' = [apiFiles EXCEPT ![RouteFilePath(walk)] = AfterCopyRoute(@, FALSE)]
            /\ phase' = "rejected"
            /\ startError' = "cp"
  /\ UNCHANGED <<alive, norm, options, env, fs, walk, stagingDir, ownPage, routes, latest, nRegs, reqs>>

\* `await import(importPathToRouteFileModule)` has settled: the default
\* export is registered with addRoute and the loop goes on; a failing
\* import rejects start().
StartImportRoute ==
  /\ alive
  /\ phase = "staged"
  /\ AtRouteFile(walk)
  /\ apiFiles[RouteFilePath(walk)] = "copied"
  /\ IF fs[RouteFilePath(walk)].exports # "throws"
       THEN /\ Register(RoutePathOfFile(walk[Len(walk)].dir, Head(walk[Len(walk)].todo)),
                        fs[RouteFilePath(walk)].exports)
            /\ apiFiles' = [apiFiles EXCEPT ![RouteFilePath(walk)] = "registered"]
            /\ walk' = Continue(DropHead(walk), fs)
            /\ phase' = IF walk' = <<>> THEN "routed" ELSE "staged"
            /\ UNCHANGED startError
       ELSE /\ phase' = "rejected"
            /\ startError' = "import"
            /\ apiFiles' = [apiFiles EXCEPT ![RouteFilePath(walk)] = "failed"]
            /\ UNCHANGED <<routes, latest, walk>>
  /\ UNCHANGED <<alive, norm, options, env, fs, stagingDir, ownPage, nRegs, reqs>>

\* `await fs.open(<staticPath>/404.html, 'r')` of start() has settled: the
\* handle is closed, or the catch block calls fs.writeFile.
StartProbe404 ==
  /\ alive
  /\ phase = "routed"
  /\ phase' = IF CanOpen(fs, PathJoin(<<options.staticPath, notFoundHtml>>))
                THEN "ready" ELSE "writing404"
  /\ UNCHANGED <<alive, norm, options, env, fs, apiFiles, walk, stagingDir, startError, ownPage,
                 routes, latest, nRegs, reqs>>

\* The page of its own the program may write.
OwnNotFoundPage == "<h1>own</h1>"

\* The program writes a 404.html of its own into the static root after
\* fs.open of start() found none and before fs.writeFile of start() writes.
ProgramWrite404 ==
  /\ alive
  /\ phase = "writing404"
  /\ ~ownPage
  /\ env.rootWritable
  /\ PathJoin(<<options.staticPath, notFoundHtml>>) \notin DOMAIN fs
  /\ fs' = WriteFile(fs, PathJoin(<<options.staticPath, notFoundHtml>>), OwnNotFoundPage)
  /\ ownPage' = TRUE
  /\ UNCHANGED <<alive, norm, options, env, apiFiles, walk, stagingDir, phase, startError,
                 routes, latest, nRegs, reqs>>

\* `await fs.writeFile(<staticPath>/404.html, default page)` of the catch
\* block has settled: the page is written whatever fs.open failed on and
\* whatever is at the path by now; a failing write rejects start().
StartWrite404 ==
  /\ alive
  /\ phase = "writing404"
  /\ LET page == PathJoin(<<options.staticPath, notFoundHtml>>)
     IN IF CanWrite(fs, page, env.rootWritable)
          THEN /\ fs' = WriteFile(fs, page, Default404Page)
               /\ phase' = "ready"
               /\ UNCHANGED startError
        ELSE phase' = "rejected" /\ startError' = "writeFile" /\ UNCHANGED fs
  /\ UNCHANGED <<alive, norm, options, env, apiFiles, walk, stagingDir, ownPage, routes, latest, nRegs, reqs>>

\* A start() that calls listen without awaiting its earlier steps.
StartListenUnawaited ==
  /\ alive
  /\ phase \in {"constructed", "cleared", "staged", "routed", "writing404", "ready"}
  /\ phase' = "resolved"
  /\ UNCHANGED <<alive, norm, options, env, fs, apiFiles, walk, stagingDir, startError, ownPage, routes, latest, nRegs, reqs>>

\* createServer(...).listen(port) is called, for either protocol, and
\* start() resolves without waiting for the server to listen.
StartListen ==
  /\ alive
  /\ phase = "ready"
  /\ phase' = "resolved"
  /\ UNCHANGED <<alive, norm, options, env, fs, apiFiles, walk, stagingDir, startError, ownPage, routes, latest, nRegs, reqs>>

\* listen(port) has settled: the server listens, or it emits 'error'
\* (EADDRINUSE, EACCES), for which it has no listener: the error is
\* uncaught and the server does not listen.
ListenSettled ==
  /\ alive
  /\ phase = "resolved"
  /\ IF env.portFree
       THEN phase' = "listening" /\ UNCHANGED alive
       ELSE phase' = "unbound" /\ Unhandled
  /\ UNCHANGED <<norm, options, env, fs, apiFiles, walk, stagingDir, startError, ownPage, routes, latest, nRegs, reqs>>

(***************************************************************************)
(* #requestListener                                                        *)
(***************************************************************************)
\* this.#routes.get(this.#normalizePath(url)): the callback, or "none"
\* (undefined: no such key, or a key registered without a callback).
LookupRoute(map, pathname) ==
  LET key == normalizePath(pathname)
  IN IF key \in DOMAIN map THEN map[key] ELSE "none"

\* The candidate file of a pathname that is not a route's.
FilePathOf(staticPath, pathname) ==
  IF EndsWith(pathname, Sep) THEN PathJoin(<<staticPath, pathname, indexHtml>>)
  ELSE PathJoin(<<staticPath, pathname>>)

\* The request as the listener holds it at its first await: the route's
\* callback is called, or the candidate file is about to be opened.
Dispatched(request, pathname) ==
  IF LookupRoute(routes, pathname) # "none"
    THEN [request EXCEPT !.pc = "awaitRoute", !.route = LookupRoute(routes, pathname)]
  ELSE [request EXCEPT !.pc = "awaitProbe",
                       !.filePath = FilePathOf(options.staticPath, pathname)]

\* The listener up to its first await, for a request with the given
\* target, method and Host header. When new URL(...) throws, the
\* listener (an async function) rejects at once: nothing is written to the
\* response and the rejection is unhandled.
Receive(i, url, method, host) ==
  /\ alive
  /\ phase = "listening"
  /\ reqs[i].pc \in {"idle", "ended"}
  /\ IsRequestTarget(url)
  /\ IsHostHeader(host)
  /\ LET awaiting == {j \in DOMAIN reqs : reqs[j].pc = "awaitRoute"}
         fresh == [IdleRequest EXCEPT !.url = url, !.method = method, !.host = host,
                                      !.during = awaiting]
     IN \A pathname \in {getPathnameFromRequest(url, host)} :
          IF pathname = InvalidUrl
            THEN /\ reqs' = [reqs EXCEPT ![i] = [fresh EXCEPT !.pc = "faulted"]]
                 /\ Unhandled
          ELSE /\ reqs' = [reqs EXCEPT ![i] = Dispatched(fresh, pathname)]
               /\ UNCHANGED alive
  /\ UNCHANGED <<norm, options, env, fs, apiFiles, walk, stagingDir, phase, startError, ownPage, routes, latest, nRegs>>

\* The head goes out, once, with the status code and the headers set so
\* far; writeHead stores the code it wrote (`statusCode |= 0`) back into
\* response.statusCode.
SendHead(response) ==
  IF response.status # 0 THEN response
  ELSE [response EXCEPT !.status = StatusOnWire(response.statusCode),
                        !.statusCode = Num(StatusOnWire(response.statusCode)),
                        !.type = response.contentType]

\* response.write(chunk): the head goes out before the first chunk.
ResponseWrite(response, chunk) ==
  [SendHead(response) EXCEPT !.body = Append(@, chunk)]

\* response.end(chunk), and response.end() when no chunk is given: the
\* head goes out if it has not, then the chunk, and the response is complete.
ResponseEnd(response, chunks) ==
  [SendHead(response) EXCEPT !.body = @ \o chunks, !.ended = TRUE]

\* A listener that tests the result against null and undefined only.
RespondToNullish(response, result) ==
  IF result.kind \in {"null", "undefined"}
    THEN ResponseEnd([response EXCEPT !.statusCode = Digits(<<"4", "0", "0">>)], <<BadRequestBody>>)
  ELSE ResponseEnd(response, <<result.text>>)

\* The response a route's result is answered with.
RespondToResult(response, result) ==
  IF Falsy(result)
    THEN ResponseEnd([response EXCEPT !.statusCode = Digits(<<"4", "0", "0">>)], <<BadRequestBody>>)
  ELSE ResponseEnd(response, <<result.text>>)

\* A listener that keeps the awaited result in a field of the server, which
\* the latest request to arrive overwrites.
RouteReturnShared(i) ==
  /\ alive
  /\ reqs[i].pc = "awaitRoute"
  /\ LET awaiting == {j \in DOMAIN reqs : reqs[j].pc = "awaitRoute"}
         newest == CHOOSE j \in awaiting : \A k \in awaiting : reqs[k].during \subseteq reqs[j].during \cup {j}
         result == HandlerResult(reqs[newest].route, reqs[newest].method)
     IN reqs' = [reqs EXCEPT ![i] =
          [@ EXCEPT !.pc = "ended", !.result = result,
                    !.response = ResponseEnd([reqs[i].response EXCEPT
                                   !.statusCode = IF Falsy(result) THEN Digits(<<"4", "0", "0">>)
                                                  ELSE reqs[i].response.statusCode],
                                 IF Falsy(result) THEN <<BadRequestBody>> ELSE <<result.text>>)]]
  /\ UNCHANGED <<alive, norm, options, env, fs, apiFiles, walk, stagingDir, phase, startError, ownPage, routes, latest, nRegs>>

\* The awaited callback has settled. When it returned, the listener
\* answers. When it threw, `await route(...)` throws in the listener, which
\* has no try/catch: the promise of the listener rejects and nothing is
\* written to the response.
RouteReturn(i) ==
  /\ alive
  /\ reqs[i].pc = "awaitRoute"
  /\ LET result == HandlerResult(reqs[i].route, reqs[i].method)
     IN IF result = Thrown
          THEN /\ reqs' = [reqs EXCEPT ![i] = [@ EXCEPT !.pc = "faulted", !.result = result]]
               /\ Unhandled
        ELSE /\ reqs' = [reqs EXCEPT ![i] =
                  [@ EXCEPT !.pc = "ended", !.result = result,
                            !.response = RespondToResult(reqs[i].response, result)]]
             /\ UNCHANGED alive
  /\ UNCHANGED <<norm, options, env, fs, apiFiles, walk, stagingDir, phase, startError, ownPage, routes, latest, nRegs>>

\* statusCode and streamPath of the listener, from the probe's outcome.
StatusCodeOf(fileExists) == IF fileExists THEN 200 ELSE 404

StreamPathOf(staticPath, filePath, fileExists) ==
  IF fileExists THEN filePath ELSE PathJoin(<<staticPath, notFoundHtml>>)

\* The handles left open by the probe: the finally block closes the handle
\* when fs.open gave one, before the probe's promise resolves.
HandlesAfterProbe(handles, fileExists) ==
  LET opened == IF fileExists THEN handles \cup {"probe"} ELSE handles
  IN opened \ {"probe"}

\* What the listener knows of the request once the probe has settled.
Probed(request, fileExists) ==
  LET streamPath == StreamPathOf(options.staticPath, request.filePath, fileExists)
  IN [request EXCEPT !.pc = "awaitOpen",
                     !.handles = HandlesAfterProbe(request.handles, fileExists),
                     !.fileExists = fileExists,
                     !.statusCode = StatusCodeOf(fileExists),
                     !.streamPath = streamPath,
                     !.mimeType = MimeType(FileExtension(streamPath))]

\* The probe fs.open(filePath, 'r') has settled: fileExists, statusCode,
\* streamPath and mimeType are computed, and streamPath is being opened.
ProbeDone(i) ==
  /\ alive
  /\ reqs[i].pc = "awaitProbe"
  /\ reqs' = [reqs EXCEPT ![i] = Probed(reqs[i], CanOpen(fs, reqs[i].filePath))]
  /\ UNCHANGED <<alive, norm, options, env, fs, apiFiles, walk, stagingDir, phase, startError, ownPage, routes, latest, nRegs>>

\* The response once the stream is opened: header, status code, and the
\* stream piped into it (no byte has gone out yet).
ResponseBeforePipe(response, mimeType, statusCode) ==
  [response EXCEPT !.contentType = mimeType, !.statusCode = Num(statusCode)]

\* fs.open(streamPath) has settled: a failure rejects the listener, which
\* leaves the response unanswered.
StreamOpen(i) ==
  /\ alive
  /\ reqs[i].pc = "awaitOpen"
  /\ IF CanOpen(fs, reqs[i].streamPath)
       THEN /\ reqs' = [reqs EXCEPT ![i] =
                 [@ EXCEPT !.pc = "streaming",
                           !.handles = reqs[i].handles \cup {"stream"},
                           !.response = ResponseBeforePipe(reqs[i].response, reqs[i].mimeType,
                                                          reqs[i].statusCode)]]
            /\ UNCHANGED alive
     ELSE /\ reqs' = [reqs EXCEPT ![i] = [@ EXCEPT !.pc = "faulted"]]
          /\ Unhandled
  /\ UNCHANGED <<norm, options, env, fs, apiFiles, walk, stagingDir, phase, startError, ownPage, routes, latest, nRegs>>

\* A read of the stream has settled with a chunk, which pipe writes to the
\* response: the head goes out with the first one. Reading a directory
\* fails, and nothing is written: the stream emits 'error', and with
\* autoClose: false nothing closes the handle.
StreamRead(i) ==
  /\ alive
  /\ reqs[i].pc = "streaming"
  /\ IF fs[reqs[i].streamPath].kind = "dir"
       THEN /\ reqs' = [reqs EXCEPT ![i] = [@ EXCEPT !.pc = "faulted"]]
            /\ Unhandled
     ELSE /\ Len(reqs[i].response.body) < Len(fs[reqs[i].streamPath].data)
          /\ reqs' = [reqs EXCEPT ![i] =
               [@ EXCEPT !.response =
                  ResponseWrite(reqs[i].response,
                                fs[reqs[i].streamPath].data[Len(reqs[i].response.body) + 1])]]
          /\ UNCHANGED alive
  /\ UNCHANGED <<norm, options, env, fs, apiFiles, walk, stagingDir, phase, startError, ownPage, routes, latest, nRegs>>

\* A read of the stream has found the end of the file: the 'end' listener
\* closes the stream and with it the handle, and pipe ends the response.
StreamEnd(i) ==
  /\ alive
  /\ reqs[i].pc = "streaming"
  /\ fs[reqs[i].streamPath].kind = "file"
  /\ Len(reqs[i].response.body) = Len(fs[reqs[i].streamPath].data)
  /\ reqs' = [reqs EXCEPT ![i] =
       [@ EXCEPT !.pc = "ended",
                 !.handles = reqs[i].handles \ {"stream"},
                 !.response = ResponseEnd(reqs[i].response, <<>>)]]
  /\ UNCHANGED <<alive, norm, options, env, fs, apiFiles, walk, stagingDir, phase, startError, ownPage, routes, latest, nRegs>>

\* The client goes away while the file is streamed: the response closes
\* and pipe unpipes the stream, which is never read to its end, so the
\* 'end' listener never runs: the response is never ended and the handle
\* stays open.
ClientAbort(i) ==
  /\ alive
  /\ reqs[i].pc = "streaming"
  /\ reqs' = [reqs EXCEPT ![i] = [@ EXCEPT !.pc = "aborted"]]
  /\ UNCHANGED <<alive, norm, options, env, fs, apiFiles, walk, stagingDir, phase, startError, ownPage, routes, latest, nRegs>>

(***************************************************************************)
(* Next-state relation                                                     *)
(***************************************************************************)
\* The steps of start().
Start ==
  \/ StartRemoveTemp
  \/ StartMakeTemp
  \/ StartReadDir
  \/ StartMakeRouteDir
  \/ StartCopyRoute
  \/ StartImportRoute
  \/ StartProbe404
  \/ StartWrite404
  \/ StartListen
  \/ ListenSettled

\* The steps of the listener on the connections of slots, and what their
\* clients do.
Serve(slots) ==
  \/ \E i \in slots : RouteReturn(i)
  \/ \E i \in slots : ProbeDone(i)
  \/ \E i \in slots : StreamOpen(i)
  \/ \E i \in slots : StreamRead(i)
  \/ \E i \in slots : StreamEnd(i)
  \/ \E i \in slots : ClientAbort(i)

(***************************************************************************)
(* Inputs of the file-server specification                                 *)
(***************************************************************************)
aDir == <<"a">>
aIndexHtml == aDir \o <<Sep>> \o indexHtml
aLogoSVG == aDir \o <<Sep, "c", Dot, "S", "V", "G">>
aDataBin == aDir \o <<Sep, "d", Dot, "b", "i", "n">>
aOddName == aDir \o <<Sep, "x", Dot>> \o constructor

\* A static root with a home page, a sub-directory and assets, and no
\* 404.html. a/d.bin is longer than three chunks.
SiteFiles ==
  [rel \in {indexHtml, aDir, aIndexHtml, aLogoSVG, aDataBin, aOddName} |->
     CASE rel = indexHtml -> File(Chunks("<h1>home</h1>"), "rw")
       [] rel = aDir -> Directory
       [] rel = aIndexHtml -> File(Chunks("<h1>a</h1>"), "rw")
       [] rel = aLogoSVG -> File(Chunks("<svg/>"), "rw")
       [] rel = aDataBin -> File(<<"0101", "0110", "1001", "11">>, "r")
       [] rel = aOddName -> File(Chunks("odd"), "rw")]

\* The same with a 404.html of the site's own. (The last of the static
\* roots below has a readable 404.html and an a/index.html the server may
\* not read.)
WithNotFound(entries, entry) ==
  [rel \in DOMAIN entries \cup {notFoundHtml} |->
     IF rel = notFoundHtml THEN entry ELSE entries[rel]]

FileSets ==
  { [rel \in {} |-> Directory],
    SiteFiles,
    WithNotFound(SiteFiles, File(Chunks("<h1>lost</h1>"), "rw")),
    WithNotFound(SiteFiles, File(Chunks("<h1>lost</h1>"), "w")),
    WithNotFound(SiteFiles, File(Chunks("<h1>lost</h1>"), "none")),
    WithNotFound(SiteFiles, Directory),
    [WithNotFound(SiteFiles, File(Chunks("<h1>lost</h1>"), "rw"))
       EXCEPT ![aIndexHtml] = File(Chunks("<h1>a</h1>"), "none")] }

bookJs == book \o <<Dot>> \o js
itemsMjs == items \o <<Dot>> \o mjs
v2 == <<"v", "2">>
apiBookJs == api \o <<Sep>> \o bookJs
apiV2 == api \o <<Sep>> \o v2
apiV2ItemsMjs == apiV2 \o <<Sep>> \o itemsMjs

NoApiFolder == [rel \in {} |-> Directory]

\* api/book.js (the README's route) and api/v2/items.mjs.
BookAndItems ==
  [rel \in {api, apiBookJs, apiV2, apiV2ItemsMjs} |->
     CASE rel = apiBookJs -> Module("export default getBook", "getBook")
       [] rel = apiV2ItemsMjs -> Module("export default listItems", "listItems")
       [] OTHER -> Directory]

\* api/book.js whose import fails.
BrokenBook ==
  [rel \in {api, apiBookJs} |->
     IF rel = apiBookJs THEN Module("export default", "throws") ELSE Directory]

\* The api folder: absent, two route files, or a file whose import fails.
ApiTrees == {NoApiFolder, BookAndItems, BrokenBook}

Options == [staticPath : {pub}, dynamicPages : BOOLEAN]

\* A host on which nothing fails.
HostOk ==
  [rmOk |-> TRUE, mkdirOk |-> TRUE, stagingWritable |-> TRUE, rootWritable |-> TRUE,
   portFree |-> TRUE]

\* The hosts: nothing fails, or one of fs.rm, fs.mkdir, writing into the
\* staging directory, creating a file in the static root and binding the
\* port does.
Envs ==
  { HostOk, [HostOk EXCEPT !.rmOk = FALSE], [HostOk EXCEPT !.mkdirOk = FALSE],
    [HostOk EXCEPT !.stagingWritable = FALSE], [HostOk EXCEPT !.rootWritable = FALSE],
    [HostOk EXCEPT !.portFree = FALSE] }

Url(rel) == <<Sep>> \o rel

\* Host: localhost:8080, and Host headers with which the base is no URL:
\* empty, "a b" and "h:99999".
localhost == <<"l", "o", "c", "a", "l", "h", "o", "s", "t", ":", "8", "0", "8", "0">>
BadHosts == {<<>>, <<"a", " ", "b">>, <<"h", ":", "9", "9", "9", "9", "9">>}
tokyo == <<"t", "o", "k", "y", "o">>
missingPdf == <<"m", Dot>> \o pdf

\* /index.html?v=1, /%2e%2e/a/ and // (which is no URL).
homeWithQuery == Url(indexHtml) \o <<"?", "v", "=", "1">>
encodedDots == <<Sep, "%", "2", "e", "%", "2", "E", Sep>> \o aDir \o <<Sep>>
noHost == <<Sep, Sep>>

StaticUrls ==
  { <<Sep>>, Url(aDir \o <<Sep>>), Url(<<"b", Sep>>), Url(aLogoSVG), Url(aDataBin),
    Url(aOddName), Url(missingPdf), Url(tokyo), Url(aDir), homeWithQuery, encodedDots, noHost,
    Url(apiBookJs) }

\* /api/book?id=1, /api/book/, /api\v2\items, /api/items.
ApiUrls ==
  { Url(api \o <<Sep>> \o book) \o <<"?", "i", "d", "=", "1">>,
    Url(api \o <<Sep>> \o book \o <<Sep>>),
    Url(api \o <<BackSlash>> \o v2 \o <<BackSlash>> \o items), Url(api \o <<Sep>> \o items) }

Init == InitOf(Options, Envs, FileSets, ApiTrees)

\* The file server: one connection, every static URL, the routes of the
\* api folder and of addRoute('items', ...) with a callback that returns
\* nothing or the empty string, or throws.
Next ==
  \/ \E route \in {items}, callback \in {"noReturn", "emptyText", "failing"} :
       nRegs < MaxRegistrations /\ AddRoute(route, callback)
  \/ ProgramWrite404
  \/ Start
  \/ \E url \in StaticUrls : Receive(1, url, "GET", localhost)
  \/ \E url \in ApiUrls, method \in Methods : Receive(1, url, method, localhost)
  \/ \E host \in BadHosts : Receive(1, Url(aDir \o <<Sep>>), "GET", host)
  \/ Serve({1})

Spec == Init /\ [][Next]_vars

(***************************************************************************)
(* Properties                                                              *)
(***************************************************************************)
Slots == 1..MaxRequests

Pathname(i) == getPathnameFromRequest(reqs[i].url, reqs[i].host)

\* The response of connection i is complete.
Answered(i) == reqs[i].pc = "ended"

\* The listener of connection i rejected or its stream failed: no answer.
Faulted(i) == reqs[i].pc = "faulted"

\* The client of connection i went away while its file was streamed.
Aborted(i) == reqs[i].pc = "aborted"

\* Request i was received, its URL has a pathname and that is no route's:
\* the listener went on to the files.
ToFiles(i) == reqs[i].filePath # <<>>

NotFoundPage == PathJoin(<<options.staticPath, notFoundHtml>>)
HomePage == PathJoin(<<options.staticPath, indexHtml>>)

\* The path is a regular file the server may read.
ReadableFile(path) ==
  path \in DOMAIN fs /\ fs[path].kind = "file" /\ fs[path].access \in {"rw", "r"}

\* The file a pathname names under the static root.
NamedFile(pathname) == PathJoin(<<options.staticPath, pathname>>)

\* The last segment of the pathname carries a file extension.
HasExtension(pathname) == PathExtname(pathname) # <<>>

\* The pathname names nothing under the static root (for a directory URL,
\* no index.html either).
NamesNothing(pathname) ==
  /\ NamedFile(pathname) \notin DOMAIN fs
  /\ EndsWith(pathname, Sep) => PathJoin(<<options.staticPath, pathname, indexHtml>>) \notin DOMAIN fs

\* The 404 behaviour for connection i: the request gets its answer, and
\* the answer is 404 with the bytes of 404.html, which are not empty.
NotFoundBehaviour(i) ==
  /\ ~Faulted(i)
  /\ Answered(i) =>
       /\ reqs[i].response.status = 404
       /\ ReadableFile(NotFoundPage)
       /\ reqs[i].response.body = fs[NotFoundPage].data
       /\ reqs[i].response.body # <<>>

\* C2: a request to a registered route whose handler produces a falsy
\* result (null, undefined, '') is answered 400 with the body
\* {"error":"400 Bad Request"}, whatever its method; a non-empty string is
\* never answered 400 (it is the body, with status 200).
C2_FalsyResultIs400 ==
  \A i \in Slots :
    (Answered(i) /\ reqs[i].route # "none") =>
      LET result == HandlerResult(reqs[i].route, reqs[i].method)
      IN IF result.kind = "string" /\ result.text # ""
           THEN /\ reqs[i].response.status # 400
                /\ reqs[i].response.status = 200
                /\ reqs[i].response.body = <<result.text>>
         ELSE /\ reqs[i].response.status = 400
              /\ reqs[i].response.body = <<"{\"error\":\"400 Bad Request\"}">>

\* A POST to the README's GET-only route was answered 400.
C2_Witness ==
  \E i \in Slots :
    /\ Answered(i) /\ reqs[i].route = "getBook" /\ reqs[i].method = "POST"
    /\ reqs[i].response.status = 400

\* C3 (as claimed): an unregistered, extensionless pathname naming no file
\* (/tokyo; directory URLs, which C6 speaks of, left aside) is answered 200
\* with index.html of the static root when dynamicPages is enabled, and 404
\* when it is disabled.
C3_DynamicPages ==
  \A i \in Slots :
    (/\ Answered(i) /\ ToFiles(i)
     /\ ~HasExtension(Pathname(i)) /\ ~EndsWith(Pathname(i), Sep)
     /\ NamesNothing(Pathname(i))
     /\ ReadableFile(HomePage)) =>
      IF options.dynamicPages
        THEN reqs[i].response.status = 200 /\ reqs[i].response.body = fs[HomePage].data
      ELSE reqs[i].response.status = 404

\* C4 (as claimed): an unregistered pathname with a file extension that
\* names no file is answered, on every host and static root, with 404 and
\* the bytes of <staticPath>/404.html (never without an answer, never with
\* an empty body).
C4_MissingAssetIs404 ==
  \A i \in Slots :
    (ToFiles(i) /\ HasExtension(Pathname(i)) /\ NamesNothing(Pathname(i))) =>
      NotFoundBehaviour(i)

\* The MIME table entry of a file's lower-cased extension, or the default.
TableEntry(path) ==
  LET e == ToLowerCase(SliceFrom(PathExtname(path), 1))
  IN IF e \in DOMAIN MIME_TYPES THEN MIME_TYPES[e] ELSE "application/octet-stream"

\* The chunks written so far are the first chunks of the file.
IsPrefix(body, data) == Len(body) <= Len(data) /\ body = SubSeq(data, 1, Len(body))

\* C5 (as claimed): an unregistered pathname naming an existing regular
\* file is answered 200 with the file's bytes and the Content-type of the
\* MIME table for its lower-cased extension, application/octet-stream when
\* the table has none; header and status are set before any byte goes out.
C5_StaticFile ==
  \A i \in Slots :
    (ToFiles(i) /\ ~EndsWith(Pathname(i), Sep) /\ ReadableFile(NamedFile(Pathname(i)))) =>
      /\ ~Faulted(i)
      /\ (reqs[i].pc = "streaming" /\ reqs[i].response.body = <<>>) =>
           /\ reqs[i].response.status = 0
           /\ reqs[i].response.statusCode = Num(200)
           /\ reqs[i].response.contentType = TableEntry(NamedFile(Pathname(i)))
      /\ reqs[i].response.body # <<>> =>
           /\ reqs[i].response.status = 200
           /\ reqs[i].response.type = TableEntry(NamedFile(Pathname(i)))
           /\ IsPrefix(reqs[i].response.body, fs[NamedFile(Pathname(i))].data)
      /\ Answered(i) =>
           /\ reqs[i].response.status = 200
           /\ reqs[i].response.body = fs[NamedFile(Pathname(i))].data
           /\ reqs[i].response.type = TableEntry(NamedFile(Pathname(i)))

\* C6 (as claimed): for an unregistered pathname ending in a separator the
\* candidate is index.html under it: when it is a file the server can open
\* the request is answered 200 with its bytes, and otherwise (no such
\* file, or one that cannot be opened) the 404 behaviour follows: an
\* answer of 404 with the bytes of 404.html.
C6_DirectoryIndex ==
  \A i \in Slots :
    (ToFiles(i) /\ EndsWith(Pathname(i), Sep)) =>
      LET candidate == PathJoin(<<options.staticPath, Pathname(i), indexHtml>>)
      IN IF ReadableFile(candidate)
           THEN /\ ~Faulted(i)
                /\ Answered(i) => /\ reqs[i].response.status = 200
                                  /\ reqs[i].response.body = fs[candidate].data
         ELSE NotFoundBehaviour(i)

\* C8 (as claimed): start() writes the default page when the static root
\* has no 404.html when it is called, and leaves a 404.html that was there
\* as it is (fs.open does not change it, and fs.writeFile, when start()
\* comes to it, does not either).
C8_Ensure404 ==
  [][/\ (phase = "routed" /\ phase' # "routed") => fs' = fs
     /\ (phase = "writing404" /\ phase' = "ready") =>
          IF NotFoundPage \in DOMAIN fs /\ ~ownPage
            THEN fs'[NotFoundPage] = fs[NotFoundPage]
          ELSE ReadableFile(NotFoundPage)' /\ fs'[NotFoundPage].data = Chunks(Default404Page)]_vars

\* The files of the api folder, at any depth.
RouteFiles ==
  LET folder == PathJoin(<<options.staticPath, api>>) \o <<Sep>>
  IN {p \in DOMAIN fs : fs[p].kind = "file" /\ Len(p) > Len(folder)
                        /\ SubSeq(p, 1, Len(folder)) = folder}

\* The route a file of the api folder is registered under.
KeyOfFile(p) ==
  RouteKey(RoutePathOfFile(SubSeq(p, 1, LastSeparator(p) - 1),
                           SubSeq(p, LastSeparator(p) + 1, Len(p))))

\* C10: listen is called, and the server listens and receives requests,
\* only once the staging directory is created, every file of the api
\* folder is registered and 404.html is there; when creating the staging
\* directory or writing the default page fails, start() rejects with that
\* error and the server does not listen. (Where the port cannot be bound
\* the server does not listen either.)
C10_ListenLast ==
  /\ (\E i \in Slots : reqs[i].pc # "idle") => phase = "listening"
  /\ phase \in {"resolved", "listening", "unbound"} =>
       /\ startError = "none"
       /\ stagingDir = "created"
       /\ walk = <<>>
       /\ \A p \in RouteFiles :
            /\ p \in DOMAIN apiFiles
            /\ apiFiles[p] = "registered"
            /\ KeyOfFile(p) \in DOMAIN routes
       /\ NotFoundPage \in DOMAIN fs
       /\ CanOpen(fs, NotFoundPage) \/ fs[NotFoundPage].data = Chunks(Default404Page)
  /\ (phase # "constructed" /\ ~env.rmOk) =>
       phase = "rejected" /\ startError = "rm"
  /\ (phase \notin {"constructed", "cleared"} /\ ~env.mkdirOk) =>
       phase = "rejected" /\ startError = "mkdir"
  /\ (phase \in {"ready", "resolved", "listening", "unbound", "rejected"}
      /\ startError \notin {"rm", "mkdir", "cp", "import"}
      /\ ~CanOpen(fs, NotFoundPage) /\ ~CanWrite(fs, NotFoundPage, env.rootWritable)) =>
       phase = "rejected" /\ startError = "writeFile"
  /\ startError # "none" => phase = "rejected"
  /\ ~env.portFree => phase # "listening"

\* The server listens after start() loaded two route files and wrote the
\* default page.
C10_Witness ==
  /\ phase = "listening"
  /\ Cardinality(RouteFiles) = 2
  /\ fs[NotFoundPage].data = Chunks(Default404Page)

\* start() rejected because the default page could not be written.
C10_WitnessRejected == phase = "rejected" /\ startError = "writeFile"

(***************************************************************************)
(* The routing specification: routes drawn from every short string         *)
(***************************************************************************)
RouteAlphabet == {Sep, "b"}

RECURSIVE StringsUpTo(_, _)
\* Every string over the alphabet of length at most n.
StringsUpTo(alphabet, n) ==
  IF n = 0 THEN {<<>>}
  ELSE LET shorter == StringsUpTo(alphabet, n - 1)
       IN shorter \cup {Append(w, c) : w \in shorter, c \in alphabet}

\* Routes with "." and ".." segments.
DottedRoutes ==
  { <<Dot>>, <<Dot, Dot>>, <<Dot, Sep, "b">>, <<"b", Sep, Dot, Dot>>, <<Dot, Dot, Sep, "b">>,
    <<"b", Dot, "b">> }

RouteStrings == StringsUpTo(RouteAlphabet, MaxRouteLen) \cup DottedRoutes

\* The forms of a route that differ by a leading and/or a trailing separator.
Variants(route) ==
  LET core == StripSeparators(route)
  IN {core, <<Sep>> \o core, core \o <<Sep>>, <<Sep>> \o core \o <<Sep>>}

\* The request targets /api/<r> and /api/<r>/ for a form r of the route.
TargetsOf(route) ==
  UNION {{<<Sep>> \o api \o <<Sep>> \o r, <<Sep>> \o api \o <<Sep>> \o r \o <<Sep>>} :
           r \in Variants(route)}

\* The targets of the routes registered so far, and one that is no route's.
RegisteredTargets == UNION {TargetsOf(latest[k].route) : k \in DOMAIN latest} \cup {Url(tokyo)}

RouteInit ==
  InitOf({[staticPath |-> pub, dynamicPages |-> TRUE]},
         {HostOk},
         {[rel \in {indexHtml} |-> File(Chunks("<h1>home</h1>"), "rw")]},
         {[rel \in {api, api \o <<Sep, "b", Dot>> \o js} |->
             IF rel = api THEN Directory ELSE Module("export default getBook", "getBook")]})

\* A program that registers routes drawn from RouteStrings, and a client
\* that requests every form of the routes registered.
RouteNext ==
  \/ \E route \in RouteStrings, callback \in {"listItems", "noReturn"} :
       nRegs < MaxRouteRegistrations /\ AddRoute(route, callback)
  \/ Start
  \/ \E url \in RegisteredTargets : Receive(1, url, "GET", localhost)
  \/ Serve({1})

RouteSpec == RouteInit /\ [][RouteNext]_vars

\* Connection i has just received a request.
Received(i) == reqs[i].pc \in {"idle", "ended"} /\ reqs'[i].pc \in {"awaitRoute", "awaitProbe"}

\* C1: when a route is registered, in whichever of its forms ('b', '/b',
\* 'b/', '/b/'), a request whose pathname is /api/<r> or /api/<r>/, for any
\* form r of the route, goes to the route's callback and not to the files.
C1_RouteReached ==
  [][\A i \in Slots : Received(i) =>
       \A k \in DOMAIN latest :
         reqs'[i].url \in TargetsOf(latest[k].route)
         /\ getPathnameFromRequest(reqs'[i].url, reqs'[i].host) = reqs'[i].url
         => /\ reqs'[i].pc = "awaitRoute"
            /\ reqs'[i].route = latest[k].callback]_vars

\* The route was registered as '/b/' and a request for /api/b is with its callback.
C1_Witness ==
  \E i \in Slots, k \in DOMAIN latest :
    /\ latest[k].route = <<Sep, "b", Sep>>
    /\ reqs[i].url = <<Sep>> \o api \o <<Sep, "b">>
    /\ reqs[i].pc = "awaitRoute"
    /\ reqs[i].route = latest[k].callback

\* The table holds, for each key registered, the callback of the last
\* registration for it, and nothing else.
TableIsLatest ==
  /\ DOMAIN routes = DOMAIN latest
  /\ \A k \in DOMAIN routes : routes[k] = latest[k].callback

\* C7: the table holds one callback per key, that of the last addRoute for
\* the key (by the program or for a file of the api folder), and a request
\* for the key calls it: after addRoute(p, f) and addRoute(p', g) with the
\* key of p, requests call g and not f.
C7_LastWriteWins ==
  [][/\ TableIsLatest /\ TableIsLatest'
     /\ \A i \in Slots : Received(i) =>
          \A url \in {reqs'[i].url}, host \in {reqs'[i].host} :
            LET k == normalizePath(getPathnameFromRequest(url, host))
            IN k \in DOMAIN latest =>
                 reqs'[i].pc = "awaitRoute" /\ reqs'[i].route = latest[k].callback]_vars

\* addRoute('/b/', listItems) replaced the callback of api/b.js, and a
\* request for /api/b is with listItems.
C7_Witness ==
  \E i \in Slots, k \in DOMAIN latest :
    /\ latest[k].route = <<Sep, "b", Sep>>
    /\ latest[k].callback = "listItems"
    /\ latest[k].replaced = "getBook"
    /\ reqs[i].url = <<Sep>> \o api \o <<Sep, "b">>
    /\ reqs[i].pc = "awaitRoute"
    /\ reqs[i].route = "listItems"

(***************************************************************************)
(* The concurrent specification: several connections served at once        *)
(***************************************************************************)
ConcurrentInit ==
  InitOf({[staticPath |-> pub, dynamicPages |-> TRUE]},
         {HostOk},
         {SiteFiles},
         {BookAndItems})

ConcurrentUrls == {Url(api \o <<Sep>> \o book), Url(api \o <<Sep>> \o v2 \o <<Sep>> \o items)}

\* The routes are those of the api folder; the clients use every connection
\* for them, and the first one for a file as well.
ConcurrentNext ==
  \/ Start
  \/ \E i \in Slots, url \in ConcurrentUrls, method \in Methods : Receive(i, url, method, localhost)
  \/ Receive(1, Url(missingPdf), "GET", localhost)
  \/ Serve(Slots)

\* The event loop runs a listener on once the promise it awaits has settled,
\* and the callbacks of this specification always return.
ConcurrentSpec ==
  /\ ConcurrentInit
  /\ [][ConcurrentNext]_vars
  /\ \A i \in Slots : WF_vars(RouteReturn(i))

\* C9: requests to registered routes that are served at once (the callbacks
\* share nothing) are all answered, each with the status and body of the
\* result of its own route's callback for its own request.
C9_Independent ==
  /\ [](\A i \in Slots :
          (Answered(i) /\ reqs[i].route # "none") =>
            LET key == normalizePath(Pathname(i))
                own == HandlerResult(routes[key], reqs[i].method)
            IN /\ reqs[i].route = routes[key]
               /\ reqs[i].result = own
               /\ reqs[i].response.body = (IF Falsy(own) THEN <<BadRequestBody>> ELSE <<own.text>>)
               /\ reqs[i].response.status = (IF Falsy(own) THEN 400 ELSE 200))
  /\ \A i \in Slots : (reqs[i].pc = "awaitRoute") ~> Answered(i)

\* Two requests to different routes were served at once (the second came
\* while the first awaited its callback) and both are answered, with
\* different bodies.
C9_Witness ==
  \E i, j \in Slots :
    /\ Answered(i) /\ Answered(j)
    /\ i \in reqs[j].during
    /\ reqs[i].route = "getBook" /\ reqs[j].route = "listItems"
    /\ reqs[i].method = "POST"
    /\ reqs[i].response.status = 400 /\ reqs[j].response.status = 200
    /\ reqs[j].response.body = <<"[1,2]">>

(***************************************************************************)
(* Faults while serving                                                    *)
(***************************************************************************)
\* C11 (as claimed): when the callback of a request's route has thrown (or
\* its promise rejected), the request is answered, with status 400 or 500,
\* and the server goes on serving.
C11_FaultCaught ==
  \A i \in Slots :
    (reqs[i].route # "none" /\ reqs[i].result = Thrown) =>
      /\ Answered(i)
      /\ reqs[i].response.status \in {400, 500}
      /\ alive /\ phase = "listening"
\* C12 (as claimed): once a request is over (answered, failed, or left by
\* its client), none of the file handles opened for it is open (in a
\* process that still runs).
C12_HandlesClosed ==
  \A i \in Slots :
    (alive /\ reqs[i].pc \in {"ended", "faulted", "aborted"}) => reqs[i].handles = {}
\* C13 (as claimed): the probe gives status 200 and the candidate as
\* streamPath only when the candidate is a regular file that can be opened;
\* on any other outcome it gives 404 and <staticPath>/404.html.
C13_ProbeOutcome ==
  \A i \in Slots :
    (ToFiles(i) /\ reqs[i].pc # "awaitProbe") =>
      IF ReadableFile(reqs[i].filePath)
        THEN reqs[i].statusCode = 200 /\ reqs[i].streamPath = reqs[i].filePath
      ELSE reqs[i].statusCode = 404 /\ reqs[i].streamPath = NotFoundPage

(***************************************************************************)
(* The path normalizer on its own                                          *)
(***************************************************************************)
PathAlphabet == {Sep, BackSlash, Dot, "a"}

\* Every path string over the alphabet up to MaxPathLen: '', '/', '.',
\* repeated and mixed separators, '.' and '..' segments.
PathStrings == StringsUpTo(PathAlphabet, MaxPathLen)

NormalizeInit ==
  /\ Constructed({[staticPath |-> pub, dynamicPages |-> TRUE]},
                 {HostOk},
                 {SiteFiles}, {NoApiFolder})
  /\ \E p \in PathStrings : norm = [NoPath EXCEPT !.pc = "input", !.p = p]

\* #normalizePath(p).
NormalizeOnce ==
  /\ norm.pc = "input"
  /\ norm' = [norm EXCEPT !.pc = "once", !.once = normalizePath(norm.p)]
  /\ UNCHANGED <<options, env, fs, apiFiles, stagingDir, phase, startError, routes, latest,
                 nRegs, reqs, alive, walk, ownPage>>

\* #normalizePath of the result.
NormalizeAgain ==
  /\ norm.pc = "once"
  /\ norm' = [norm EXCEPT !.pc = "twice", !.twice = normalizePath(norm.once)]
  /\ UNCHANGED <<options, env, fs, apiFiles, stagingDir, phase, startError, routes, latest,
                 nRegs, reqs, alive, walk, ownPage>>

NormalizeNext == NormalizeOnce \/ NormalizeAgain

NormalizeSpec == NormalizeInit /\ [][NormalizeNext]_vars

\* C14 (as claimed): the path normalizer applied to its own result gives
\* that result again, for every path string.
C14_Idempotent == norm.pc = "twice" => norm.twice = norm.once

====
